---- MODULE Spec2Model ----
(***************************************************************************)
(* png2ico: the conversion core of src/main.py.                            *)
(*                                                                         *)
(*   ImageConverter.convert_png_to_ico  one action per statement group of  *)
(*                                      its try block, plus the handler    *)
(*   ImageConverter._resize_image       the operator ResizeImage           *)
(*   ImageConverter.batch_convert       one action per phase of the loop   *)
(*                                                                         *)
(* The image library and the filesystem are the environment.  A file is    *)
(* what FileAt says is stored at its path; the output files are the        *)
(* variable fs.  Everything the library can raise is raised from the file  *)
(* it is given (undecodable, truncated, degenerate geometry) or from the   *)
(* state of the output volume (disk, dirs, a directory at the path).       *)
(***************************************************************************)
EXTENDS Integers, Sequences, FiniteSets, TLC

\* Python's None, as an argument or as an entry of the input list.
None == "None"

(***************************************************************************)
(* Bounds of the model.                                                    *)
(***************************************************************************)
\* Longest input list handed to batch_convert.
MaxFiles == 2

\* Largest width and height of a source handed to _resize_image on its own.
MaxDim == 9

\* Largest target size handed to _resize_image on its own.
MaxSize == 18

\* The clicks on Convert that are followed.
MaxClicks == 2

\* The messages that wait on the queue before check_queue runs again.
MaxQueue == 3

(***************************************************************************)
(* The input files on disk.                                                *)
(***************************************************************************)
NoFile ==
    [kind |-> "absent", format |-> "", mode |-> "", width |-> 0, height |-> 0,
     intact |-> FALSE]

TextFile ==
    [kind |-> "text", format |-> "", mode |-> "", width |-> 0, height |-> 0,
     intact |-> FALSE]

ImageFile(format, mode, width, height, intact) ==
    [kind |-> "image", format |-> format, mode |-> mode, width |-> width,
     height |-> height, intact |-> intact]

\* str(Path(p)): pathlib drops a leading "./".
PathStr(p) ==
    CASE p = "./a.png" -> "a.png"
      [] OTHER -> p

\* Path(p).stem
Stem(p) ==
    CASE PathStr(p) = "a.png" -> "a"
      [] p = "sub/a.png" -> "a"
      [] p = "tall.png" -> "tall"
      [] p = "photo.png" -> "photo"
      [] p = "cut.png" -> "cut"
      [] p = "notes.txt" -> "notes"
      [] OTHER -> "missing"

\* Path(p).name
BaseName(p) ==
    CASE PathStr(p) = "a.png" -> "a.png"
      [] p = "sub/a.png" -> "a.png"
      [] OTHER -> p

\* What is stored at an input path: a square RGBA PNG, a wide RGB PNG, a tall
\* PNG, a JPEG with a .png name, a PNG whose pixel data is cut short, a text
\* file, and nothing at all.
FileAt(p) ==
    CASE PathStr(p) = "a.png" -> ImageFile("PNG", "RGBA", 2, 2, TRUE)
      [] p = "sub/a.png" -> ImageFile("PNG", "RGB", 3, 1, TRUE)
      [] p = "tall.png" -> ImageFile("PNG", "RGBA", 1, 3, TRUE)
      [] p = "photo.png" -> ImageFile("JPEG", "RGB", 2, 2, TRUE)
      [] p = "cut.png" -> ImageFile("PNG", "RGB", 2, 2, FALSE)
      [] p = "notes.txt" -> TextFile
      [] OTHER -> NoFile

\* The input paths a single conversion is tried on.
InputPaths ==
    {"a.png", "sub/a.png", "tall.png", "photo.png", "cut.png", "notes.txt",
     "missing.png", None}

\* The entries an input list of batch_convert is made of.
BatchInputs == {"./a.png", "sub/a.png", "notes.txt", "missing.png", None}

\* Path(x) and os.path.exists(x) raise TypeError on anything but a path.
IsPathLike(p) == p # None

(***************************************************************************)
(* Output paths and the output files.                                      *)
(***************************************************************************)
Cwd == "."

OutPath(dir, stem) == [dir |-> dir, stem |-> stem, ext |-> "ico"]

Stems == {"a", "tall", "photo", "cut", "notes", "missing"}

OutPaths == {OutPath(d, s) : d \in {Cwd, "out"}, s \in Stems}

\* output_path=None
NoOutPath == [dir |-> "", stem |-> "", ext |-> ""]

Absent == [kind |-> "absent", frames |-> <<>>]

\* The "dummy content" of a file that was there before the call.
OldFile == [kind |-> "old", frames |-> <<>>]

\* A directory sitting at the output path.
DirEntry == [kind |-> "dir", frames |-> <<>>]

\* A file the save step began and did not finish.
Partial == [kind |-> "partial", frames |-> <<>>]

\* The ICO container the save step writes from the frames it is handed.
IcoFile(images) == [kind |-> "ico", frames |-> images]

(***************************************************************************)
(* Config                                                                  *)
(***************************************************************************)
\* sizes=None, and a list passed as sizes.
NoSizes == [none |-> TRUE, list |-> <<>>]

SizeList(list) == [none |-> FALSE, list |-> list]

\* Config.get_icon_sizes with the default settings.
ConfigSizes == SizeList(<<16, 24, 32, 48, 64, 128, 256>>)

(***************************************************************************)
(* ImageConverter._resize_image                                            *)
(***************************************************************************)
\* Variant: the quotient rounded to the nearest integer.
IntDivRounds(a, b) == (2 * a + b) \div (2 * b)

\* int(x) of Python on the quotient a / b, b > 0: truncation towards zero.
IntDiv(a, b) == IF a >= 0 THEN a \div b ELSE -((-a) \div b)

\* aspect_ratio = img.width / img.height, size / aspect_ratio and
\* size * aspect_ratio are floating-point.  Where the exact quotient is a whole
\* number the floating-point one can fall just short of it, and int() then
\* gives one less: the cases with width and height up to 16 and size up to 24.
FloatShort(img, size) ==
    <<img.width, img.height, size>> \in {<<9, 7, 9>>, <<9, 7, 18>>}

FloatLoss(img, size) == IF FloatShort(img, size) THEN 1 ELSE 0

\* aspect_ratio > 1
WiderThanTall(img) == img.width > img.height

NewWidth(img, size) ==
    IF WiderThanTall(img) THEN size
    ELSE IntDiv(size * img.width, img.height) - FloatLoss(img, size)

NewHeightInverted(img, size) ==
    IF WiderThanTall(img)
      THEN IntDiv(size * img.width, img.height) - FloatLoss(img, size)
      ELSE size

NewHeight(img, size) ==
    IF WiderThanTall(img)
      THEN IntDiv(size * img.height, img.width) - FloatLoss(img, size)
      ELSE size

\* img.resize raises on truncated pixel data and on a side below one pixel.
ResizeRaises(img, size) ==
    \/ ~img.intact
    \/ NewWidth(img, size) < 1
    \/ NewHeight(img, size) < 1

ResizeImageOffsetSign(img, size) ==
    [width |-> size, height |-> size, mode |-> "RGBA",
     new_width |-> NewWidth(img, size),
     new_height |-> NewHeight(img, size),
     x_offset |-> (size + NewWidth(img, size)) \div 2,
     y_offset |-> (size + NewHeight(img, size)) \div 2]

\* The square canvas with the geometry of the paste.
ResizeImage(img, size) ==
    [width |-> size, height |-> size, mode |-> "RGBA",
     new_width |-> NewWidth(img, size),
     new_height |-> NewHeight(img, size),
     x_offset |-> (size - NewWidth(img, size)) \div 2,
     y_offset |-> (size - NewHeight(img, size)) \div 2]

(***************************************************************************)
(* State                                                                   *)
(***************************************************************************)
VARIABLES
    fs,           \* the output files: OutPaths -> content
    dirs,         \* the directories that exist, besides the current one
    disk,         \* "ok", or "full": writes to the volume fail
    cpc,          \* convert_png_to_ico: where the call is
    input_path,   \* its arguments
    output_path,
    sizes,
    overwrite,
    img,          \* the opened image
    icon_images,  \* the frames built so far
    cret,         \* what the call returned, "raised" for an escaped exception
    csite,        \* the statement the call left its try block at
    fs0,          \* the output files when the call was entered
    bpc,          \* batch_convert: where the call is
    input_files,  \* its arguments
    output_dir,
    bsizes,
    boverwrite,
    progress_callback,
    i,            \* the loop index
    results,      \* the dict it builds
    calls,        \* the calls of convert_png_to_ico it made, in order
    progress,     \* the invocations of the callback, in order
    rpc,          \* _resize_image called on its own: where the call is
    rimg,         \* its arguments
    rsize,
    rgeom,        \* new_width and new_height
    rcanvas,      \* the canvas it returns
    input_entry,  \* the window: the text of the input entry
    sizes_entry,  \* the text of the sizes entry, split at the commas
    batch_var,    \* the batch mode checkbox
    file_listbox, \* the file list shown in batch mode
    threads,      \* the conversion threads started, in order
    queue,        \* the messages the threads have put, oldest first
    progress_var, \* the progress bar, a percentage kept as <<num, den>>
    status_label, \* the status line
    messagebox    \* the dialog shown last

cvars ==
    <<cpc, input_path, output_path, sizes, overwrite, img, icon_images, cret,
      csite, fs0>>

bvars ==
    <<bpc, input_files, output_dir, bsizes, boverwrite, progress_callback, i,
      results, calls, progress>>

rvars == <<rpc, rimg, rsize, rgeom, rcanvas>>

gvars ==
    <<input_entry, sizes_entry, batch_var, file_listbox, threads, queue,
      progress_var, status_label, messagebox>>

xvars == <<rvars, gvars>>

vars == <<fs, dirs, disk, cvars, bvars, xvars>>

NoImage == NoFile

NoGeometry == [new_width |-> 0, new_height |-> 0]

NoCanvas ==
    [width |-> 0, height |-> 0, mode |-> "", new_width |-> 0,
     new_height |-> 0, x_offset |-> 0, y_offset |-> 0]

\* No call of _resize_image on its own is in progress.
NoResize ==
    /\ rpc = "idle"
    /\ rimg = NoImage
    /\ rsize = 0
    /\ rgeom = NoGeometry
    /\ rcanvas = NoCanvas

\* The window is not in use.
NoGui ==
    /\ input_entry = ""
    /\ sizes_entry = <<>>
    /\ batch_var = FALSE
    /\ file_listbox = <<>>
    /\ threads = <<>>
    /\ queue = <<>>
    /\ progress_var = <<0, 1>>
    /\ status_label = [text |-> "Ready", name |-> "", successful |-> 0, failed |-> 0]
    /\ messagebox = "none"

(***************************************************************************)
(* ImageConverter.convert_png_to_ico                                       *)
(***************************************************************************)
\* os.path.exists(input_path)
InputExists(p) == FileAt(p).kind # "absent"

\* os.path.exists(output_path): a file or a directory is there.
OutputExists(files, p) == files[p].kind # "absent"

NotPngNever(image) == FALSE

\* img.format != 'PNG'
NotPng(image) == image.format # "PNG"

OutputBlockedNever(files, p, ow) == FALSE

OutputBlockedInverted(files, p, ow) == OutputExists(files, p) /\ ow

\* os.path.exists(output_path) and not overwrite
OutputBlocked(files, p, ow) == OutputExists(files, p) /\ ~ow

\* return False / return True inside the try block ("False", "True")
Return(value, site) ==
    /\ cret' = value
    /\ csite' = site
    /\ cpc' = "done"

\* An exception raised inside the try block, on its way to the handler.
Raise(site) ==
    /\ csite' = site
    /\ cpc' = "except"
    /\ UNCHANGED cret

\* The call is entered with these arguments.
Enter(inp, outp, szs, ow) ==
    /\ cpc' = "exists"
    /\ input_path' = inp
    /\ output_path' = outp
    /\ sizes' = szs
    /\ overwrite' = ow
    /\ img' = NoImage
    /\ icon_images' = <<>>
    /\ cret' = "none"
    /\ csite' = "none"
    /\ fs0' = fs

CheckInputReturnsTrue ==
    /\ cpc = "exists"
    /\ IF ~IsPathLike(input_path)
         THEN Raise("type_error")
         ELSE IF ~InputExists(input_path)
                THEN Return("True", "not_found")
                ELSE cpc' = "open" /\ UNCHANGED <<cret, csite>>
    /\ UNCHANGED <<xvars, fs, dirs, disk, input_path, output_path, sizes, overwrite,
                   img, icon_images, fs0, bvars>>

\* Variant: the existing output is looked at before the input.
CheckInputAfterOutput ==
    /\ cpc = "exists"
    /\ IF ~IsPathLike(input_path)
         THEN Raise("type_error")
         ELSE IF OutputBlocked(fs,
                               IF output_path = NoOutPath
                                 THEN OutPath(Cwd, Stem(input_path))
                                 ELSE output_path,
                               overwrite)
                THEN Return("False", "exists")
                ELSE IF ~InputExists(input_path)
                       THEN Return("False", "not_found")
                       ELSE cpc' = "open" /\ UNCHANGED <<cret, csite>>
    /\ UNCHANGED <<xvars, fs, dirs, disk, input_path, output_path, sizes, overwrite,
                   img, icon_images, fs0, bvars>>

\* if not os.path.exists(input_path): log, return False
CheckInput ==
    /\ cpc = "exists"
    /\ IF ~IsPathLike(input_path)
         THEN Raise("type_error")
         ELSE IF ~InputExists(input_path)
                THEN Return("False", "not_found")
                ELSE cpc' = "open" /\ UNCHANGED <<cret, csite>>
    /\ UNCHANGED <<xvars, fs, dirs, disk, input_path, output_path, sizes, overwrite,
                   img, icon_images, fs0, bvars>>

\* with Image.open(input_path) as img: if img.format != 'PNG': log, return False
OpenImage ==
    /\ cpc = "open"
    /\ IF FileAt(input_path).kind # "image"
         THEN Raise("open_error") /\ UNCHANGED img
         ELSE /\ img' = FileAt(input_path)
              /\ IF NotPng(FileAt(input_path))
                   THEN Return("False", "not_png")
                   ELSE cpc' = "rgba" /\ UNCHANGED <<cret, csite>>
    /\ UNCHANGED <<xvars, fs, dirs, disk, input_path, output_path, sizes, overwrite,
                   icon_images, fs0, bvars>>

\* if img.mode != 'RGBA': img = img.convert('RGBA'), which decodes the pixels
ToRGBA ==
    /\ cpc = "rgba"
    /\ IF img.mode # "RGBA"
         THEN IF img.intact
                THEN /\ img' = [img EXCEPT !.mode = "RGBA"]
                     /\ cpc' = "outpath"
                     /\ UNCHANGED <<cret, csite>>
                ELSE Raise("decode_error") /\ UNCHANGED img
         ELSE cpc' = "outpath" /\ UNCHANGED <<img, cret, csite>>
    /\ UNCHANGED <<xvars, fs, dirs, disk, input_path, output_path, sizes, overwrite,
                   icon_images, fs0, bvars>>

\* if output_path is None: output_path = f"{Path(input_path).stem}.ico"
ResolveOutput ==
    /\ cpc = "outpath"
    /\ output_path' =
         IF output_path = NoOutPath THEN OutPath(Cwd, Stem(input_path))
         ELSE output_path
    /\ cpc' = "overwrite"
    /\ UNCHANGED <<xvars, fs, dirs, disk, input_path, sizes, overwrite, img,
                   icon_images, cret, csite, fs0, bvars>>

\* if os.path.exists(output_path) and not overwrite: log, return False
CheckOverwrite ==
    /\ cpc = "overwrite"
    /\ IF OutputBlocked(fs, output_path, overwrite)
         THEN Return("False", "exists")
         ELSE cpc' = "sizes" /\ UNCHANGED <<cret, csite>>
    /\ UNCHANGED <<xvars, fs, dirs, disk, input_path, output_path, sizes, overwrite,
                   img, icon_images, fs0, bvars>>

\* Variant: an empty list is replaced by the configured one as well.
ResolveSizesWhenFalsy ==
    /\ cpc = "sizes"
    /\ sizes' = IF sizes.none \/ sizes.list = <<>> THEN ConfigSizes ELSE sizes
    /\ cpc' = "frames"
    /\ UNCHANGED <<xvars, fs, dirs, disk, input_path, output_path, overwrite, img,
                   icon_images, cret, csite, fs0, bvars>>

\* if sizes is None: sizes = self.config.get_icon_sizes()
ResolveSizes ==
    /\ cpc = "sizes"
    /\ sizes' = IF sizes.none THEN ConfigSizes ELSE sizes
    /\ cpc' = "frames"
    /\ UNCHANGED <<xvars, fs, dirs, disk, input_path, output_path, overwrite, img,
                   icon_images, cret, csite, fs0, bvars>>

\* for size in sizes: icon_images.append(self._resize_image(img, size))
BuildFrame ==
    /\ cpc = "frames"
    /\ Len(icon_images) < Len(sizes.list)
    /\ LET size == sizes.list[Len(icon_images) + 1] IN
         IF ResizeRaises(img, size)
           THEN Raise("resize_error") /\ UNCHANGED icon_images
           ELSE /\ icon_images' = Append(icon_images, ResizeImage(img, size))
                /\ UNCHANGED <<cpc, cret, csite>>
    /\ UNCHANGED <<xvars, fs, dirs, disk, input_path, output_path, sizes, overwrite,
                   img, fs0, bvars>>

SavedFramesPrimaryOnly(images) == <<images[1]>>

\* The frames the save step is handed: icon_images[0] is the image saved,
\* icon_images[1:] are its append_images (none when there is one frame).
SavedFrames(images) ==
    IF Len(images) = 1 THEN <<images[1]>>
    ELSE <<images[1]>> \o SubSeq(images, 2, Len(images))

\* The directory the output file goes into exists.
ParentExists(p) == p.dir = Cwd \/ p.dir \in dirs

\* icon_images[0].save(output_path, format='ICO', append_images=...); return True
\* The library opens the file for writing, which empties a file that is
\* there, and then writes; when the write fails it removes the file if it
\* created it, and leaves what was written of a file that was there before.
Save ==
    /\ cpc = "frames"
    /\ Len(icon_images) = Len(sizes.list)
    /\ IF icon_images = <<>>
         THEN Raise("no_frames") /\ UNCHANGED fs
         ELSE IF fs[output_path].kind = "dir" \/ ~ParentExists(output_path)
                THEN Raise("save_error") /\ UNCHANGED fs
                ELSE IF disk = "full"
                       THEN /\ Raise("save_error")
                            /\ fs' = [fs EXCEPT
                                        ![output_path] =
                                          IF fs[output_path].kind = "absent"
                                            THEN Absent ELSE Partial]
                       ELSE /\ fs' = [fs EXCEPT
                                        ![output_path] =
                                          IcoFile(SavedFrames(icon_images))]
                            /\ Return("True", "success")
    /\ UNCHANGED <<xvars, dirs, disk, input_path, output_path, sizes, overwrite, img,
                   icon_images, fs0, bvars>>

HandlerReraises ==
    /\ cpc = "except"
    /\ cret' = "raised"
    /\ cpc' = "done"
    /\ UNCHANGED <<xvars, fs, dirs, disk, input_path, output_path, sizes, overwrite,
                   img, icon_images, csite, fs0, bvars>>

\* except Exception as e: log, return False
Handler ==
    /\ cpc = "except"
    /\ cret' = "False"
    /\ cpc' = "done"
    /\ UNCHANGED <<xvars, fs, dirs, disk, input_path, output_path, sizes, overwrite,
                   img, icon_images, csite, fs0, bvars>>

ConvertStep ==
    \/ CheckInput
    \/ OpenImage
    \/ ToRGBA
    \/ ResolveOutput
    \/ CheckOverwrite
    \/ ResolveSizes
    \/ BuildFrame
    \/ Save
    \/ Handler

(***************************************************************************)
(* A single call of convert_png_to_ico, from any state of the output       *)
(* volume.                                                                 *)
(***************************************************************************)
\* The size lists a caller passes.
SizeLists ==
    {NoSizes} \cup {SizeList(l) : l \in {<<>>, <<2>>, <<0>>, <<32, 16>>, <<16, -1>>}}

\* The output volume before a call: at most one path is taken.
Volumes ==
    {[p \in OutPaths |-> Absent]}
      \cup {[p \in OutPaths |-> IF p = q THEN c ELSE Absent] :
              q \in {OutPath(Cwd, "a"), OutPath("out", "a")},
              c \in {OldFile, DirEntry}}

NoBatch ==
    /\ bpc = "none"
    /\ input_files = <<>>
    /\ output_dir = None
    /\ bsizes = NoSizes
    /\ boverwrite = FALSE
    /\ progress_callback = FALSE
    /\ i = 0
    /\ results = [total |-> 0, successful |-> 0, failed |-> 0, details |-> <<>>]
    /\ calls = <<>>
    /\ progress = <<>>

InitConvert ==
    /\ fs \in Volumes
    /\ dirs \in {{}, {"out"}}
    /\ \A p \in OutPaths : fs[p].kind # "absent" => ParentExists(p)
    /\ disk \in {"ok", "full"}
    /\ cpc = "exists"
    /\ input_path \in InputPaths
    /\ output_path \in {NoOutPath, OutPath(Cwd, "a"), OutPath("out", "a")}
    /\ sizes \in SizeLists
    /\ overwrite \in BOOLEAN
    /\ img = NoImage
    /\ icon_images = <<>>
    /\ cret = "none"
    /\ csite = "none"
    /\ fs0 = fs
    /\ NoBatch
    /\ NoResize
    /\ NoGui

SpecConvert == InitConvert /\ [][ConvertStep]_vars

(***************************************************************************)
(* ImageConverter.batch_convert                                            *)
(***************************************************************************)
\* The entry of results['details'] for one input.
Detail(file, status, output, error) ==
    [file |-> file, status |-> status, output |-> output, error |-> error]

\* os.path.join(output_dir, f"{stem}.ico") if output_dir else f"{stem}.ico"
DerivedOutput(dir, input_file) ==
    IF dir # None THEN OutPath(dir, Stem(input_file))
    ELSE OutPath(Cwd, Stem(input_file))

\* The except branch of the loop body: failed += 1, details.append(...)
RecordException(res, input_file) ==
    [res EXCEPT
       !.failed = @ + 1,
       !.details = Append(@, Detail(input_file, "failed", NoOutPath,
                                    "exception"))]

RecordDropsFailure(res, input_file, ret, outp) ==
    IF ret = "True"
      THEN [res EXCEPT
              !.successful = @ + 1,
              !.details = Append(@, Detail(PathStr(input_file), "success",
                                           outp, ""))]
      ELSE [res EXCEPT !.failed = @ + 1]

RecordPrepends(res, input_file, ret, outp) ==
    IF ret = "True"
      THEN [res EXCEPT
              !.successful = @ + 1,
              !.details = <<Detail(PathStr(input_file), "success", outp, "")>>
                            \o @]
      ELSE IF ret = "False"
             THEN [res EXCEPT
                     !.failed = @ + 1,
                     !.details = <<Detail(PathStr(input_file), "failed",
                                          NoOutPath, "Conversion failed")>>
                                   \o @]
             ELSE RecordException(res, input_file)

\* if success: successful += 1, details.append(...)
\* else: failed += 1, details.append(...); an exception out of the call goes
\* to the except branch.
RecordOutcome(res, input_file, ret, outp) ==
    IF ret = "True"
      THEN [res EXCEPT
              !.successful = @ + 1,
              !.details = Append(@, Detail(PathStr(input_file), "success",
                                           outp, ""))]
      ELSE IF ret = "False"
             THEN [res EXCEPT
                     !.failed = @ + 1,
                     !.details = Append(@, Detail(PathStr(input_file),
                                                  "failed", NoOutPath,
                                                  "Conversion failed"))]
             ELSE RecordException(res, input_file)

\* progress = (i + 1) / len(input_files) * 100, kept as the fraction num / den;
\* seen is the number of outcomes recorded when the callback runs.
ProgressCall(index, total, input_file, seen) ==
    [num |-> (index + 1) * 100, den |-> total, status |-> BaseName(input_file),
     seen |-> seen]

\* results = {...}; if output_dir and not os.path.exists(output_dir): makedirs
BatchStart ==
    /\ bpc = "start"
    /\ results' = [total |-> Len(input_files), successful |-> 0, failed |-> 0,
                   details |-> <<>>]
    /\ dirs' = IF output_dir # None /\ output_dir \notin dirs
                 THEN dirs \cup {output_dir} ELSE dirs
    /\ i' = 0
    /\ bpc' = "loop"
    /\ UNCHANGED <<xvars, fs, disk, cvars, input_files, output_dir, bsizes,
                   boverwrite, progress_callback, calls, progress>>

\* for i, input_file in enumerate(input_files): try: input_path =
\* Path(input_file); output_path = ...; self.convert_png_to_ico(...)
BatchIter ==
    /\ bpc = "loop"
    /\ i < Len(input_files)
    /\ LET input_file == input_files[i + 1] IN
         IF ~IsPathLike(input_file)
           THEN /\ results' = RecordException(results, input_file)
                /\ bpc' = "progress"
                /\ UNCHANGED <<cvars, calls>>
           ELSE /\ Enter(PathStr(input_file),
                         DerivedOutput(output_dir, input_file), bsizes,
                         boverwrite)
                /\ calls' = Append(calls, [index |-> i + 1,
                                           path |-> PathStr(input_file)])
                /\ bpc' = "convert"
                /\ UNCHANGED results
    /\ UNCHANGED <<xvars, fs, dirs, disk, input_files, output_dir, bsizes,
                   boverwrite, progress_callback, i, progress>>

\* The call has come back: the if/else on success, or the except branch.
BatchRecord ==
    /\ bpc = "convert"
    /\ cpc = "done"
    /\ results' = RecordOutcome(results, input_files[i + 1], cret,
                                output_path)
    /\ bpc' = "progress"
    /\ UNCHANGED <<xvars, fs, dirs, disk, cvars, input_files, output_dir, bsizes,
                   boverwrite, progress_callback, i, calls, progress>>

\* if progress_callback: progress_callback(progress,
\* f"Processing: {Path(input_file).name}"), outside the try block
BatchProgress ==
    /\ bpc = "progress"
    /\ LET input_file == input_files[i + 1] IN
         IF progress_callback
           THEN IF ~IsPathLike(input_file)
                  THEN /\ bpc' = "raised"
                       /\ UNCHANGED <<i, progress>>
                  ELSE /\ progress' =
                            Append(progress,
                                   ProgressCall(i, Len(input_files),
                                                input_file,
                                                Len(results.details)))
                       /\ i' = i + 1
                       /\ bpc' = "loop"
           ELSE /\ i' = i + 1
                /\ bpc' = "loop"
                /\ UNCHANGED progress
    /\ UNCHANGED <<xvars, fs, dirs, disk, cvars, input_files, output_dir, bsizes,
                   boverwrite, progress_callback, results, calls>>

\* return results
BatchReturn ==
    /\ bpc = "loop"
    /\ i = Len(input_files)
    /\ bpc' = "returned"
    /\ UNCHANGED <<xvars, fs, dirs, disk, cvars, input_files, output_dir, bsizes,
                   boverwrite, progress_callback, i, results, calls, progress>>

\* The input lists of at most MaxFiles entries.
InputLists == UNION {[1..n -> BatchInputs] : n \in 0..MaxFiles}

InitBatch ==
    /\ fs \in Volumes
    /\ \A p \in OutPaths : fs[p].kind \in {"absent", "old"}
    /\ dirs \in {{}, {"out"}}
    /\ \A p \in OutPaths : fs[p].kind # "absent" => ParentExists(p)
    /\ disk \in {"ok", "full"}
    /\ cpc = "idle"
    /\ input_path = None
    /\ output_path = NoOutPath
    /\ sizes = NoSizes
    /\ overwrite = FALSE
    /\ img = NoImage
    /\ icon_images = <<>>
    /\ cret = "none"
    /\ csite = "none"
    /\ fs0 = fs
    /\ bpc = "start"
    /\ input_files \in InputLists
    /\ output_dir \in {None, "out"}
    /\ bsizes \in {NoSizes, SizeList(<<2>>)}
    /\ boverwrite \in BOOLEAN
    /\ progress_callback \in BOOLEAN
    /\ i = 0
    /\ results = [total |-> 0, successful |-> 0, failed |-> 0, details |-> <<>>]
    /\ calls = <<>>
    /\ progress = <<>>
    /\ NoResize
    /\ NoGui

Next ==
    \/ BatchStart
    \/ BatchIter
    \/ BatchRecord
    \/ BatchProgress
    \/ BatchReturn
    \/ CheckInput
    \/ OpenImage
    \/ ToRGBA
    \/ ResolveOutput
    \/ CheckOverwrite
    \/ ResolveSizes
    \/ BuildFrame
    \/ Save
    \/ Handler

Spec == InitBatch /\ [][Next]_vars

(***************************************************************************)
(* Properties of batch_convert, under Spec.                                *)
(***************************************************************************)
Returned == bpc = "returned"

\* The call is over: it returned, or an exception left it.
BatchOver == bpc \in {"returned", "raised"}

Details == results.details

\* The calls of convert_png_to_ico made for the entry at position k.
CallsFor(k) == {c \in 1..Len(calls) : calls[c].index = k}

\* C1: when batch_convert returns, total == successful + failed ==
\* len(details), and total is the number of input paths, for every input
\* list, the empty one included.
C1_CountsAddUp ==
    Returned =>
      /\ results.total = results.successful + results.failed
      /\ results.total = Len(Details)
      /\ results.total = Len(input_files)

C1_Witness ==
    /\ Returned
    /\ results.successful >= 1
    /\ results.failed >= 1

\* C2: a failure on one input (a False return, or an exception raised while
\* that entry is handled) never aborts the batch: once the call is over,
\* every later input path has been passed to convert_png_to_ico exactly once.
C2_FailureNeverAborts ==
    BatchOver =>
      \A j \in 1..Len(Details) :
        Details[j].status = "failed" =>
          \A k \in (j + 1)..Len(input_files) :
            IsPathLike(input_files[k]) =>
              /\ Cardinality(CallsFor(k)) = 1
              /\ \A c \in CallsFor(k) :
                   calls[c].path = PathStr(input_files[k])

\* C3: with a callback and n >= 1 inputs, once the call is over the callback
\* has run exactly once per input, the k-th time after k outcomes were
\* recorded and with k/n*100, so increasing and ending at exactly 100.
C3_ProgressOncePerFile ==
    (BatchOver /\ progress_callback /\ Len(input_files) >= 1) =>
      /\ Len(progress) = Len(input_files)
      /\ \A k \in 1..Len(progress) :
           /\ progress[k].num = k * 100
           /\ progress[k].den = Len(input_files)
           /\ progress[k].seen = k
      /\ \A k \in 1..(Len(progress) - 1) :
           progress[k].num * progress[k + 1].den
             < progress[k + 1].num * progress[k].den
      /\ progress[Len(progress)].num = 100 * progress[Len(progress)].den

\* C4: details is ordered as the input list: details[k] names input_files[k]
\* and carries that entry's own status, success with its output path or
\* failed with an error text.
C4_DetailsFollowInputs ==
    /\ Len(Details) <= Len(input_files)
    /\ Returned => Len(Details) = Len(input_files)
    /\ \A k \in 1..Len(Details) :
         /\ PathStr(Details[k].file) = PathStr(input_files[k])
         /\ Details[k].status \in {"success", "failed"}
         /\ Details[k].status = "success" =>
              /\ Details[k].output = DerivedOutput(output_dir, input_files[k])
              /\ fs[Details[k].output].kind = "ico"
         /\ Details[k].status = "failed" => Details[k].error # ""
    /\ (bpc = "progress" /\ IsPathLike(input_files[i + 1])) =>
         /\ Len(Details) = i + 1
         /\ (Details[i + 1].status = "success") <=> (cret = "True")

C4_Witness ==
    /\ Returned
    /\ Len(Details) = 2
    /\ Details[1].status = "failed"
    /\ Details[1].file = "missing.png"
    /\ Details[2].status = "success"
    /\ Details[2].file = "a.png"

(***************************************************************************)
(* Properties of convert_png_to_ico, under SpecConvert.                    *)
(***************************************************************************)
Done == cpc = "done"

\* The output path the call works on, given or derived.
ResolvedOutput ==
    IF output_path = NoOutPath THEN OutPath(Cwd, Stem(input_path))
    ELSE output_path

\* The input is a PNG the decoder reads to the end.
ValidPng ==
    /\ IsPathLike(input_path)
    /\ FileAt(input_path).kind = "image"
    /\ FileAt(input_path).format = "PNG"
    /\ FileAt(input_path).intact

\* The size list is the configured one, or non-empty and all positive.
ValidSizes ==
    \/ sizes.none
    \/ sizes = ConfigSizes
    \/ /\ Len(sizes.list) >= 1
       /\ \A k \in 1..Len(sizes.list) : sizes.list[k] >= 1

\* C5: with an input path that does not exist the call returns False and
\* creates no output file, whatever the output path, sizes and overwrite.
C5_MissingInputFails ==
    (Done /\ IsPathLike(input_path) /\ FileAt(input_path).kind = "absent") =>
      /\ cret = "False"
      /\ fs = fs0

C5_Witness ==
    /\ Done
    /\ input_path = "missing.png"
    /\ overwrite
    /\ output_path = OutPath(Cwd, "a")
    /\ fs0[output_path].kind = "absent"

\* C6: with an existing input that is not a PNG, undecodable or decodable
\* with another format tag, the call returns False and creates no output file.
C6_NonPngFails ==
    (/\ Done
     /\ IsPathLike(input_path)
     /\ \/ FileAt(input_path).kind = "text"
        \/ /\ FileAt(input_path).kind = "image"
           /\ FileAt(input_path).format # "PNG") =>
      /\ cret = "False"
      /\ fs = fs0

C6_Witness ==
    /\ Done
    /\ input_path = "photo.png"
    /\ overwrite
    /\ ~sizes.none
    /\ fs0[ResolvedOutput].kind = "absent"

\* C7: with a valid PNG, an output path that already exists and
\* overwrite=false the call returns False and leaves the existing output
\* file as it was.
C7_OverwriteProtection ==
    (Done /\ ValidPng /\ fs0[ResolvedOutput].kind # "absent" /\ ~overwrite) =>
      /\ cret = "False"
      /\ fs = fs0

C7_Witness ==
    /\ Done
    /\ ValidPng
    /\ ~overwrite
    /\ fs0[ResolvedOutput] = OldFile
    /\ csite = "exists"

\* C8: with a valid PNG, a valid non-empty size list, an output file that
\* already exists and overwrite=true, on a volume that takes the write, the
\* call returns True and the output path holds the newly written ICO.
C8_OverwriteReplaces ==
    (/\ Done
     /\ ValidPng
     /\ ValidSizes
     /\ overwrite
     /\ fs0[ResolvedOutput] = OldFile
     /\ disk = "ok") =>
      /\ cret = "True"
      /\ fs[ResolvedOutput].kind = "ico"

\* C9: no exception escapes the call: whatever the arguments, and whatever
\* the decoder, the resize step or the save step raise, the call returns a
\* boolean, False on an error.
C9_NoExceptionEscapes ==
    Done =>
      /\ cret \in {"True", "False"}
      /\ csite \in {"type_error", "open_error", "decode_error",
                    "resize_error", "no_frames", "save_error"} =>
           cret = "False"

C9_Witness ==
    /\ Done
    /\ csite = "save_error"
    /\ cret = "False"

NoConvert ==
    /\ cpc = "idle"
    /\ input_path = None
    /\ output_path = NoOutPath
    /\ sizes = NoSizes
    /\ overwrite = FALSE
    /\ img = NoImage
    /\ icon_images = <<>>
    /\ cret = "none"
    /\ csite = "none"

\* aspect_ratio = img.width / img.height; new_width, new_height = ...
ResizeCompute ==
    /\ rpc = "enter"
    /\ rgeom' = [new_width |-> NewWidth(rimg, rsize),
                 new_height |-> NewHeight(rimg, rsize)]
    /\ rpc' = "scaled"
    /\ UNCHANGED <<gvars, fs, dirs, disk, cvars, bvars, rimg, rsize, rcanvas>>

\* resized = img.resize((new_width, new_height), Image.Resampling.LANCZOS)
ResizeScale ==
    /\ rpc = "scaled"
    /\ rpc' = IF ResizeRaises(rimg, rsize) THEN "raised" ELSE "resized"
    /\ UNCHANGED <<gvars, fs, dirs, disk, cvars, bvars, rimg, rsize, rgeom, rcanvas>>

\* square_img = Image.new('RGBA', (size, size), (0, 0, 0, 0)); paste at the
\* offsets; return square_img
ResizePaste ==
    /\ rpc = "resized"
    /\ rcanvas' = ResizeImage(rimg, rsize)
    /\ rpc' = "returned"
    /\ UNCHANGED <<gvars, fs, dirs, disk, cvars, bvars, rimg, rsize, rgeom>>

ResizeStep ==
    \/ ResizeCompute
    \/ ResizeScale
    \/ ResizePaste

InitResize ==
    /\ fs = [p \in OutPaths |-> Absent]
    /\ dirs = {}
    /\ disk = "ok"
    /\ fs0 = fs
    /\ NoConvert
    /\ NoBatch
    /\ rpc = "enter"
    /\ rimg \in {ImageFile("PNG", "RGBA", w, h, TRUE) :
                   w \in 1..MaxDim, h \in 1..MaxDim}
    /\ rsize \in 1..MaxSize
    /\ rgeom = NoGeometry
    /\ rcanvas = NoCanvas
    /\ NoGui

SpecResize == InitResize /\ [][ResizeStep]_vars

(***************************************************************************)
(* Properties of _resize_image, under SpecResize.                          *)
(***************************************************************************)
\* new_width and new_height have been computed.
Scaled == rpc \in {"scaled", "resized", "returned", "raised"}

ResizeOver == rpc \in {"returned", "raised"}

\* C11: for every source of positive width and height and every positive
\* size S the call returns a canvas of exactly S x S pixels in RGBA mode,
\* also for a source so elongated that its scaled shorter side is below one
\* pixel.
C11_AlwaysSquareCanvas ==
    ResizeOver =>
      /\ rpc = "returned"
      /\ rcanvas.width = rsize
      /\ rcanvas.height = rsize
      /\ rcanvas.mode = "RGBA"

\* C12: for a wide source (W > H) new_width = S and new_height < S; the
\* image is pasted at x_offset = 0, and the padding above it and below it
\* differ by at most one pixel.
C12_WidePadding ==
    /\ (Scaled /\ rimg.width > rimg.height) =>
         /\ rgeom.new_width = rsize
         /\ rgeom.new_height < rsize
    /\ (rpc = "returned" /\ rimg.width > rimg.height) =>
         LET above == rcanvas.y_offset
             below == rsize - rcanvas.new_height - rcanvas.y_offset
         IN /\ rcanvas.x_offset = 0
            /\ rcanvas.new_width = rsize
            /\ rcanvas.new_height < rsize
            /\ above >= 0
            /\ below - above \in {0, 1}

C12_Witness ==
    /\ rpc = "returned"
    /\ rimg.width > rimg.height
    /\ rcanvas.new_height >= 1
    /\ rsize - rcanvas.new_height - rcanvas.y_offset = rcanvas.y_offset + 1

\* C13: for a square source of any size N and any positive S, new_width =
\* new_height = S and x_offset = y_offset = 0: no padding.
C13_SquareNoPadding ==
    /\ (Scaled /\ rimg.width = rimg.height) =>
         /\ rgeom.new_width = rsize
         /\ rgeom.new_height = rsize
         /\ rpc # "raised"
    /\ (rpc = "returned" /\ rimg.width = rimg.height) =>
         /\ rcanvas.new_width = rsize
         /\ rcanvas.new_height = rsize
         /\ rcanvas.x_offset = 0
         /\ rcanvas.y_offset = 0

C13_Witness ==
    /\ rpc = "returned"
    /\ rimg.width = rimg.height
    /\ rimg.width > rsize
    /\ rsize > 1

\* n is a nearest integer to a / b.
Nearest(n, a, b) == 2 * a - b <= 2 * n * b /\ 2 * n * b <= 2 * a + b

\* n is a / b cut to a whole number, or one less where a / b is whole.
Truncated(n, a, b) ==
    /\ n \in {(a \div b) - 1, a \div b}
    /\ a % b # 0 => n = a \div b

\* C16, as stated: the scaled shorter side is rounded to the nearest integer,
\* new_height = round(S * H / W) for W > H and new_width = round(S * W / H)
\* otherwise.
C16_RoundsToNearest ==
    Scaled =>
      IF rimg.width > rimg.height
        THEN Nearest(rgeom.new_height, rsize * rimg.height, rimg.width)
        ELSE Nearest(rgeom.new_width, rsize * rimg.width, rimg.height)

\* C16, amended: the scaled shorter side is cut to a whole number, not
\* rounded: new_height = int(S / (W / H)) for W > H and new_width =
\* int(S * (W / H)) otherwise, which is floor(S * H / W), resp.
\* floor(S * W / H), or one less than it where that quotient is whole and the
\* floating-point one falls short of it; the longer side is S.
C16_Truncates ==
    Scaled =>
      IF rimg.width > rimg.height
        THEN /\ rgeom.new_width = rsize
             /\ Truncated(rgeom.new_height, rsize * rimg.height, rimg.width)
        ELSE /\ rgeom.new_height = rsize
             /\ Truncated(rgeom.new_width, rsize * rimg.width, rimg.height)

C16_Witness ==
    /\ Scaled
    /\ rimg.width = 3
    /\ rimg.height = 2
    /\ rsize = 16
    /\ rgeom.new_height = 10

(***************************************************************************)
(* Claims about the frames, the order of the checks and the size list of   *)
(* convert_png_to_ico.                                                     *)
(***************************************************************************)
\* C14: when convert_png_to_ico returns True, the save step was handed
\* exactly one frame per entry of the resolved size list, in the order of the
\* list; the k-th frame is the S_k x S_k RGBA canvas _resize_image makes of
\* the decoded image for the k-th size, the first one being the image saved
\* and the others its append_images; a one-element list gives one frame.
C14_OneFramePerSize ==
    (Done /\ cret = "True") =>
      LET saved == fs[output_path].frames IN
        /\ fs[output_path].kind = "ico"
        /\ Len(icon_images) = Len(sizes.list)
        /\ Len(saved) = Len(sizes.list)
        /\ \A k \in 1..Len(sizes.list) :
             /\ saved[k] = ResizeImage(img, sizes.list[k])
             /\ saved[k] = icon_images[k]
             /\ saved[k].width = sizes.list[k]
             /\ saved[k].height = sizes.list[k]
             /\ saved[k].mode = "RGBA"

\* A call with the two sizes 32 and 16 succeeded: two frames, 32 first.
C14_Witness ==
    /\ Done
    /\ cret = "True"
    /\ sizes = SizeList(<<32, 16>>)
    /\ Len(fs[output_path].frames) = 2
    /\ fs[output_path].frames[1].width = 32
    /\ fs[output_path].frames[2].width = 16

\* The output the call would write to is there and overwrite is off.
Blocked == OutputBlocked(fs0, ResolvedOutput, overwrite)

\* Where each check stands: the format check is reached only with an input
\* that exists, the output check only with a PNG, the resolution of the
\* size list only with an output that may be written; and each failed check
\* ends the call whatever the later ones would have said.
ChecksInOrder ==
    /\ cpc \in {"open", "rgba", "outpath", "overwrite", "sizes", "frames"} =>
         IsPathLike(input_path) /\ InputExists(input_path)
    /\ cpc \in {"rgba", "outpath", "overwrite", "sizes", "frames"} =>
         img.format = "PNG"
    /\ cpc \in {"sizes", "frames"} => ~Blocked
    /\ Done =>
         /\ (IsPathLike(input_path) /\ ~InputExists(input_path)) =>
              (csite = "not_found" /\ cret = "False")
         /\ (IsPathLike(input_path) /\ InputExists(input_path)
               /\ FileAt(input_path).kind # "image") =>
              (csite = "open_error" /\ cret = "False")
         /\ (IsPathLike(input_path) /\ FileAt(input_path).kind = "image"
               /\ FileAt(input_path).format # "PNG") =>
              (csite = "not_png" /\ cret = "False")
         /\ (ValidPng /\ Blocked) => (csite = "exists" /\ cret = "False")
         /\ csite \in {"resize_error", "no_frames", "save_error", "success"} =>
              (ValidPng /\ ~Blocked)

\* The size list is touched in one place only, after the three checks.
SizesResolvedLast ==
    sizes' # sizes =>
      /\ cpc = "sizes"
      /\ InputExists(input_path)
      /\ img.format = "PNG"
      /\ ~Blocked

\* C15: convert_png_to_ico checks that the input exists, then that it is a
\* PNG, then that no existing output is in the way, and only then resolves
\* the size list: a missing input fails as not found even when the output
\* exists and overwrite is off, and an input that is not a PNG fails before
\* the output is looked at.
C15_ChecksInOrder == []ChecksInOrder /\ [][SizesResolvedLast]_vars

\* A missing input, an output in the way, overwrite off: not found.
C15_Witness ==
    /\ Done
    /\ IsPathLike(input_path)
    /\ ~InputExists(input_path)
    /\ Blocked
    /\ csite = "not_found"

\* C17: a size list with a zero or negative entry is rejected before any
\* resize: convert_png_to_ico never calls _resize_image with a size that is
\* not positive.
C17_NoResizeOfNonPositive ==
    [][BuildFrame => sizes.list[Len(icon_images) + 1] >= 1]_vars

\* The size list changes only by taking the configured list for None, and
\* None is always replaced where the list is resolved.
ConfigExactlyForNone ==
    /\ sizes' # sizes => (cpc = "sizes" /\ sizes.none /\ sizes' = ConfigSizes)
    /\ (cpc = "sizes" /\ cpc' = "frames") =>
         sizes' = IF sizes.none THEN ConfigSizes ELSE sizes

\* A call whose list is empty after resolution fails and writes nothing.
EmptyListFails ==
    /\ cpc = "frames" => ~sizes.none
    /\ (Done /\ ~sizes.none /\ sizes.list = <<>>) =>
         (cret = "False" /\ fs = fs0)
    /\ (Done /\ csite = "no_frames") =>
         (sizes.list = <<>> /\ cret = "False" /\ fs = fs0)

\* C18: the size list comes from the configuration exactly when the caller
\* passes None, and a list that is empty after resolution makes
\* convert_png_to_ico return False without writing an output.
C18_SizesResolved == []EmptyListFails /\ [][ConfigExactlyForNone]_vars

\* An empty list was passed, got as far as the save step and failed there.
C18_Witness ==
    /\ Done
    /\ csite = "no_frames"
    /\ sizes = SizeList(<<>>)
    /\ ValidPng
    /\ cret = "False"

(***************************************************************************)
(* PNGtoICOConverter: the window, its conversion threads and the queue     *)
(* between them.                                                           *)
(***************************************************************************)
\* What the directories the user can point the window at hold.
DirEntries(path) ==
    CASE path = "icons" -> {"a.png", "B.PNG", "notes.txt"}
      [] path = "empty" -> {"notes.txt"}
      [] OTHER -> {}

\* os.path.isdir(path)
IsDir(path) == path \in {"icons", "empty", "locked"}

\* os.listdir(path) raises for a directory that may not be read.
ListdirRaises(path) == path = "locked"

\* os.listdir(path): the entries, in an order the system chooses.
Listings(path) ==
    LET entries == DirEntries(path)
        n == Cardinality(entries) IN
      {l \in [1..n -> entries] : \A j, k \in 1..n : l[j] = l[k] => j = k}

\* str.lower()
Lower(name) == IF name = "B.PNG" THEN "b.png" ELSE name

\* file.lower().endswith('.png')
IsPngName(name) == Lower(name) \in {"a.png", "b.png"}

\* The file names in the order of str comparison (by code point: 'B' is
\* before 'a').
CodePointOrder == <<"B.PNG", "a.png", "notes.txt">>

InSeq(x, seq) == \E k \in 1..Len(seq) : seq[k] = x

\* png_files.sort()
SortNames(names) ==
    LET Among(n) == InSeq(n, names) IN SelectSeq(CodePointOrder, Among)

\* [f for f in os.listdir(dir) if f.lower().endswith('.png')]
PngNames(listing) == SelectSeq(listing, IsPngName)

\* os.path.join(input_path, file)
Join(dir, name) == [dir |-> dir, name |-> name]

\* str.strip() of the text of the input entry
Strip(text) == IF text = " a.png " THEN "a.png" ELSE text

\* size.strip() is empty: the token is dropped
IsBlank(token) == token \in {"", " "}

\* int(size.strip()) raises ValueError
IntRaises(token) == token \notin {"16", " 32", "0", "-16"}

\* int(size.strip())
IntOf(token) ==
    CASE token = "16" -> 16
      [] token = " 32" -> 32
      [] token = "0" -> 0
      [] token = "-16" -> 0 - 16
      [] OTHER -> 0

NotBlank(token) == ~IsBlank(token)

\* The tokens the list comprehension converts.
SizeTokens(entry) == SelectSeq(entry, NotBlank)

\* The parse of the sizes entry raises ValueError: a token is not a number,
\* or no token is left.
ParseRaises(entry) ==
    \/ \E k \in 1..Len(SizeTokens(entry)) : IntRaises(SizeTokens(entry)[k])
    \/ SizeTokens(entry) = <<>>

\* sizes = [int(size.strip()) for size in sizes_str.split(',') if size.strip()]
ParseSizes(entry) ==
    [k \in 1..Len(SizeTokens(entry)) |-> IntOf(SizeTokens(entry)[k])]

NoResults == [total |-> 0, successful |-> 0, failed |-> 0, details |-> <<>>]

\* The tuples put on the queue: ('progress', progress, status),
\* ('complete', text), ('batch_complete', results), ('error', text).
Message(type, percent, text, name, res) ==
    [type |-> type, progress |-> percent, text |-> text, name |-> name,
     results |-> res]

ProgressMessage(num, den, name) ==
    Message("progress", <<num, den>>, "Processing", name, NoResults)

CompleteMessage(name) ==
    Message("complete", <<0, 1>>, "Successfully converted", name, NoResults)

BatchCompleteMessage(res) ==
    Message("batch_complete", <<0, 1>>, "", "", res)

ErrorMessage(text, name) == Message("error", <<0, 1>>, text, name, NoResults)

\* The text of the status line.
Label(text, name, successful, failed) ==
    [text |-> text, name |-> name, successful |-> successful,
     failed |-> failed]

\* convert_png_to_ico as the threads call it, with the overwrite box checked
\* and room on the volume: it returns True for the PNG files there are,
\* unless the size list makes a resize raise.
ConvertSucceeds(name, szs) ==
    /\ name \in {"a.png", "B.PNG"}
    /\ szs # <<>>
    /\ \A k \in 1..Len(szs) : ~ResizeRaises(FileAt("a.png"), szs[k])

\* threading.Thread(target=self.convert_thread, args=(input_path, output_path,
\* sizes, overwrite, batch_mode)): the thread and the locals of its run; put
\* is the types of the messages the run has put on the queue, in order.
NewThread(inp, szs, batch) ==
    [pc |-> "start", input_path |-> inp, sizes |-> szs, batch_mode |-> batch,
     png_files |-> <<>>, done |-> 0, results |-> NoResults, put |-> <<>>]

\* The threads that have been started and have not finished.
Running == {t \in 1..Len(threads) : threads[t].pc # "finished"}

\* A click on Convert.
StartConversion ==
    /\ Len(threads) < MaxClicks
    /\ IF Strip(input_entry) = ""
         THEN /\ messagebox' = "Please select an input file or directory."
              /\ UNCHANGED <<threads, progress_var, status_label>>
         ELSE IF ParseRaises(sizes_entry)
                THEN /\ messagebox' = "Invalid icon sizes."
                     /\ UNCHANGED <<threads, progress_var, status_label>>
                ELSE /\ progress_var' = <<0, 1>>
                     /\ status_label' = Label("Starting conversion...", "", 0, 0)
                     /\ threads' = Append(threads,
                                          NewThread(Strip(input_entry),
                                                    ParseSizes(sizes_entry),
                                                    batch_var))
                     /\ UNCHANGED messagebox
    /\ UNCHANGED <<input_entry, sizes_entry, batch_var, file_listbox, queue>>
    /\ UNCHANGED <<rvars, fs, dirs, disk, cvars, bvars>>

\* The input entry changes in batch mode, before the first click on Convert:
\* the file list is filled again.
LoadBatchFiles ==
    /\ batch_var
    /\ threads = <<>>
    /\ IF Strip(input_entry) = "" \/ ~IsDir(Strip(input_entry))
            \/ ListdirRaises(Strip(input_entry))
         THEN file_listbox' = <<>>
         ELSE file_listbox' \in {SortNames(PngNames(listing)) :
                                   listing \in Listings(Strip(input_entry))}
    /\ UNCHANGED <<input_entry, sizes_entry, batch_var, threads, queue,
                   progress_var, status_label, messagebox>>
    /\ UNCHANGED <<rvars, fs, dirs, disk, cvars, bvars>>

\* self.queue.put(message) by thread t, which goes on as next.
PutAndGo(t, message, next) ==
    /\ Len(queue) < MaxQueue
    /\ queue' = Append(queue, message)
    /\ threads' = [threads EXCEPT
                     ![t] = [next EXCEPT !.put = Append(@, message.type)]]

GuiFrame ==
    /\ UNCHANGED <<input_entry, sizes_entry, batch_var, file_listbox,
                   progress_var, status_label, messagebox>>
    /\ UNCHANGED <<rvars, fs, dirs, disk, cvars, bvars>>

\* convert_thread in batch mode, up to the call of batch_convert: the
\* directory test, the listing and its filter, the test for no PNG file.
ThreadListFiles(t) ==
    LET th == threads[t] IN
      /\ th.pc = "start"
      /\ th.batch_mode
      /\ IF ~IsDir(th.input_path)
           THEN PutAndGo(t, ErrorMessage("Batch mode requires a directory as input.", ""),
                         [th EXCEPT !.pc = "finished"])
           ELSE IF ListdirRaises(th.input_path)
                  THEN /\ threads' = [threads EXCEPT ![t].pc = "except"]
                       /\ UNCHANGED queue
                  ELSE \E listing \in Listings(th.input_path) :
                         LET names == PngNames(listing)
                             png_files ==
                               [k \in 1..Len(names) |->
                                  Join(th.input_path, names[k])] IN
                           IF png_files = <<>>
                             THEN PutAndGo(t, ErrorMessage("No PNG files found in the selected directory.", ""),
                                           [th EXCEPT !.pc = "finished"])
                             ELSE /\ threads' =
                                       [threads EXCEPT
                                          ![t] = [th EXCEPT
                                                    !.pc = "batch",
                                                    !.png_files = png_files,
                                                    !.results =
                                                      [NoResults EXCEPT
                                                         !.total = Len(png_files)]]]
                                  /\ UNCHANGED queue
      /\ GuiFrame

\* One pass of the loop of batch_convert run by the thread: the file is
\* converted, the outcome recorded, and the callback puts a progress message.
ThreadConvertFile(t) ==
    LET th == threads[t] IN
      /\ th.pc = "batch"
      /\ th.done < Len(th.png_files)
      /\ LET file == th.png_files[th.done + 1] IN
           LET success == ConvertSucceeds(file.name, th.sizes) IN
             PutAndGo(t,
                      ProgressMessage((th.done + 1) * 100, Len(th.png_files),
                                      file.name),
                      [th EXCEPT
                         !.done = @ + 1,
                         !.results =
                           [@ EXCEPT
                              !.successful = IF success THEN @ + 1 ELSE @,
                              !.failed = IF success THEN @ ELSE @ + 1,
                              !.details =
                                Append(@, [file |-> file.name,
                                           status |-> IF success THEN "success"
                                                      ELSE "failed"])]])
      /\ GuiFrame

\* batch_convert has returned: self.queue.put(('batch_complete', results))
ThreadBatchComplete(t) ==
    LET th == threads[t] IN
      /\ th.pc = "batch"
      /\ th.done = Len(th.png_files)
      /\ PutAndGo(t, BatchCompleteMessage(th.results),
                  [th EXCEPT !.pc = "finished"])
      /\ GuiFrame

\* convert_thread for a single file: convert, then put 'complete' or 'error'.
ThreadConvertSingle(t) ==
    LET th == threads[t] IN
      /\ th.pc = "start"
      /\ ~th.batch_mode
      /\ LET success == ConvertSucceeds(BaseName(th.input_path), th.sizes) IN
           PutAndGo(t,
                    IF success THEN CompleteMessage(BaseName(th.input_path))
                    ELSE ErrorMessage("Failed to convert", BaseName(th.input_path)),
                    [th EXCEPT !.pc = "finished"])
      /\ GuiFrame

\* Variant: the handler swallows the exception and puts nothing.
ThreadExceptSilent(t) ==
    /\ threads[t].pc = "except"
    /\ threads' = [threads EXCEPT ![t].pc = "finished"]
    /\ UNCHANGED queue
    /\ GuiFrame

\* except Exception as e: self.queue.put(('error', f"Conversion error: ..."))
ThreadExcept(t) ==
    LET th == threads[t] IN
      /\ th.pc = "except"
      /\ PutAndGo(t, ErrorMessage("Conversion error", ""),
                  [th EXCEPT !.pc = "finished"])
      /\ GuiFrame

\* The branch of check_queue for one message, on the widgets it sets.
HandleMessage(w, m) ==
    CASE m.type = "progress" ->
           [w EXCEPT !.progress_var = m.progress,
                     !.status_label = Label(m.text, m.name, 0, 0)]
      [] m.type = "complete" ->
           [w EXCEPT !.progress_var = <<100, 1>>,
                     !.status_label =
                       Label("Conversion completed successfully!", "", 0, 0),
                     !.messagebox = "Success"]
      [] m.type = "batch_complete" ->
           [w EXCEPT !.progress_var = <<100, 1>>,
                     !.status_label =
                       Label("Batch conversion completed", "",
                             m.results.successful, m.results.failed),
                     !.messagebox = "Batch Complete"]
      [] OTHER ->
           [w EXCEPT !.status_label = Label("Conversion failed!", "", 0, 0),
                     !.messagebox = m.text]

\* while True: message = self.queue.get_nowait(); ... until queue.Empty
RECURSIVE HandleAll(_, _)
HandleAll(w, messages) ==
    IF messages = <<>> THEN w
    ELSE HandleAll(HandleMessage(w, Head(messages)), Tail(messages))

\* One run of check_queue: every message waiting is taken, oldest first.
CheckQueue ==
    LET w == HandleAll([progress_var |-> progress_var,
                        status_label |-> status_label,
                        messagebox |-> messagebox], queue) IN
      /\ queue' = <<>>
      /\ progress_var' = w.progress_var
      /\ status_label' = w.status_label
      /\ messagebox' = w.messagebox
      /\ UNCHANGED <<input_entry, sizes_entry, batch_var, file_listbox, threads>>
      /\ UNCHANGED <<rvars, fs, dirs, disk, cvars, bvars>>

\* The texts the user has put in the input entry and in the sizes entry.
InputTexts == {"", " a.png ", "icons", "empty", "locked"}

SizesTexts ==
    {<<"16", " 32">>, <<"-16", "0", " ">>, <<"16", "abc">>, <<"">>}

InitGui ==
    /\ fs = [p \in OutPaths |-> Absent]
    /\ dirs = {}
    /\ disk = "ok"
    /\ fs0 = fs
    /\ NoConvert
    /\ NoBatch
    /\ NoResize
    /\ input_entry \in InputTexts
    /\ sizes_entry \in SizesTexts
    /\ batch_var \in BOOLEAN
    /\ file_listbox = <<>>
    /\ threads = <<>>
    /\ queue = <<>>
    /\ progress_var = <<0, 1>>
    /\ status_label = Label("Ready", "", 0, 0)
    /\ messagebox = "none"

\* A step of one of the threads.
ListFiles == \E t \in 1..Len(threads) : ThreadListFiles(t)

ConvertFile == \E t \in 1..Len(threads) : ThreadConvertFile(t)

BatchComplete == \E t \in 1..Len(threads) : ThreadBatchComplete(t)

ConvertSingle == \E t \in 1..Len(threads) : ThreadConvertSingle(t)

Except == \E t \in 1..Len(threads) : ThreadExcept(t)

GuiStep ==
    \/ StartConversion
    \/ LoadBatchFiles
    \/ CheckQueue
    \/ ListFiles
    \/ ConvertFile
    \/ BatchComplete
    \/ ConvertSingle
    \/ Except

SpecGui == InitGui /\ [][GuiStep]_vars

\* C19: at most one conversion thread is running at any time: start_conversion
\* starts no second thread while an earlier one has not finished.
C19_OneThreadAtATime == Cardinality(Running) <= 1

\* The files a thread has handed to batch_convert, by name.
HandedNames(t) ==
    [k \in 1..Len(threads[t].png_files) |-> threads[t].png_files[k].name]

\* C20: in batch mode the thread hands the PNG files of the directory to
\* batch_convert in sorted order, the order of the file list in the window.
C20_BatchFilesSorted ==
    \A t \in 1..Len(threads) :
      threads[t].png_files # <<>> =>
        HandedNames(t) = SortNames(HandedNames(t))

(***************************************************************************)
(* The window with check_queue run again and again: it reschedules itself  *)
(* every 100 ms.                                                           *)
(***************************************************************************)
SpecGuiFair == SpecGui /\ WF_vars(CheckQueue)

TerminalTypes == {"complete", "batch_complete", "error"}

\* The places of the terminal messages among those run t has put.
Terminals(t) ==
    {k \in 1..Len(threads[t].put) : threads[t].put[k] \in TerminalTypes}

\* A run puts at most one terminal message, nothing after it, and has put
\* exactly one when it is over.
OneTerminalLast ==
    \A t \in 1..Len(threads) :
      /\ Cardinality(Terminals(t)) <= 1
      /\ Terminals(t) \subseteq {Len(threads[t].put)}
      /\ threads[t].pc = "finished" <=> Terminals(t) # {}
      /\ (threads[t].pc = "finished" /\ threads[t].png_files # <<>>) =>
           /\ Len(threads[t].put) = Len(threads[t].png_files) + 1
           /\ threads[t].put[Len(threads[t].put)] = "batch_complete"

\* What the status line reads after a message has been handled.
StatusAfter(m) ==
    CASE m.type = "progress" -> Label(m.text, m.name, 0, 0)
      [] m.type = "complete" ->
           Label("Conversion completed successfully!", "", 0, 0)
      [] m.type = "batch_complete" ->
           Label("Batch conversion completed", "", m.results.successful,
                 m.results.failed)
      [] OTHER -> Label("Conversion failed!", "", 0, 0)

\* The queue only grows at its end, by one message, or is emptied as a
\* whole; when it is emptied the messages were handled oldest first, so the
\* status line shows the newest one.
FifoDrain ==
    /\ \/ queue' = queue
       \/ /\ Len(queue') = Len(queue) + 1
          /\ SubSeq(queue', 1, Len(queue)) = queue
       \/ queue' = <<>>
    /\ (queue # <<>> /\ queue' = <<>>) =>
         status_label' = StatusAfter(queue[Len(queue)])

\* C21: every run of convert_thread puts exactly one terminal message
\* ('complete', 'batch_complete' or 'error') and it is the last message of
\* the run, after all its 'progress' messages; check_queue takes the messages
\* oldest first and all that wait in one run, so every message put is handled
\* in the end.
C21_OneTerminalAllHandled ==
    /\ []OneTerminalLast
    /\ [][FifoDrain]_vars
    /\ (queue # <<>>) ~> (queue = <<>>)

\* A batch run is over, its two progress messages and its batch_complete
\* were put in this order, and check_queue has handled them all.
C21_Witness ==
    /\ Len(threads) >= 1
    /\ threads[1].pc = "finished"
    /\ threads[1].put = <<"progress", "progress", "batch_complete">>
    /\ queue = <<>>
    /\ status_label.text = "Batch conversion completed"

(***************************************************************************)
(* Claims about inputs of one batch that derive the same output path.      *)
(***************************************************************************)
\* The sizes the calls of this batch resolve.
BatchSizeList == IF bsizes.none THEN ConfigSizes.list ELSE bsizes.list

\* The ICO file a successful conversion of this input writes.
WrittenFor(input_file) ==
    LET rgba == [FileAt(PathStr(input_file)) EXCEPT !.mode = "RGBA"] IN
      IcoFile([k \in 1..Len(BatchSizeList) |->
                 ResizeImage(rgba, BatchSizeList[k])])

\* Inputs j and k, j before k, derive the same output path.
SameOutput(j, k) ==
    /\ j < k
    /\ IsPathLike(input_files[j])
    /\ IsPathLike(input_files[k])
    /\ DerivedOutput(output_dir, input_files[j])
         = DerivedOutput(output_dir, input_files[k])

\* overwrite=False: the later input fails, the earlier one's file stays.
EarlierOutputKept ==
    (Returned /\ ~boverwrite) =>
      \A j, k \in 1..Len(input_files) :
        (SameOutput(j, k) /\ Details[j].status = "success") =>
          /\ Details[k].status = "failed"
          /\ fs[DerivedOutput(output_dir, input_files[j])]
               = WrittenFor(input_files[j])

\* overwrite=True: the later input succeeds too, and the file is the one of
\* the last input that derives this path.
LaterOutputReplaces ==
    (Returned /\ boverwrite) =>
      \A j, k \in 1..Len(input_files) :
        (SameOutput(j, k) /\ Details[j].status = "success") =>
          /\ Details[k].status = "success"
          /\ (\A l \in 1..Len(input_files) : ~SameOutput(k, l)) =>
               fs[DerivedOutput(output_dir, input_files[k])]
                 = WrittenFor(input_files[k])

\* C22: within one batch_convert call, when two inputs share a base name and
\* so derive the same output path: with overwrite=False the later one is
\* recorded as failed and the file written for the earlier one keeps its
\* contents; with overwrite=True the later one replaces the file and both are
\* recorded as success.
C22_SameStemOutputs == EarlierOutputKept /\ LaterOutputReplaces

====
